---------------------------- MODULE Spec2Model ----------------------------
(***************************************************************************)
(* A model of the ws server (src/src/main.rs, src/src/websocket.rs): the   *)
(* HTTP upgrade handshake, the per-connection task it spawns, and the      *)
(* WebSocket frame decoder built on nom's bit and byte parsers.            *)
(*                                                                         *)
(* Bytes are integers 0..255 and byte strings are sequences of them.  A    *)
(* u32 is a pair <<high 16 bits, low 16 bits>>.  Rust's Option is a        *)
(* sequence of length 0 (None) or 1 (Some).                                *)
(***************************************************************************)
EXTENDS Integers, Sequences, FiniteSets, TLC

VARIABLES
    profile,   \* the build: "debug" (overflow checks on) or "release"
    req,       \* req[c]: the upgrade request received on connection c
    resp,      \* resp[c]: the HTTP response returned by upgrade
    warned,    \* warned[c]: the handshake error logged by upgrade, if any
    task,      \* task[c]: where the spawned connection task stands
    buffer,    \* buffer[c]: the bytes read_buf returned
    frame,     \* frame[c]: the Frame returned by Frame::from_bytes
    rest,      \* rest[c]: the bytes from_bytes returned beside the frame
    message,   \* message[c]: the unmasked message handle_upgraded printed
    outcome    \* outcome[c]: how the connection task ended

vars == <<profile, req, resp, warned, task, buffer, frame, rest, message, outcome>>

(***************************************************************************)
(* Bounds of the model.                                                    *)
(***************************************************************************)
NConn == 2
MaxVersionLen == 3
MaxTail == 16
MaxPayload == 5
HeaderTailLen == 20

Conn == 1..NConn

None == <<>>
Some(x) == <<x>>

(***************************************************************************)
(* Bit arithmetic on 4-bit, 8-bit and 16-bit values and on u32 words.      *)
(***************************************************************************)
Pow2(n) == 2 ^ n
Bit(n, i) == (n \div Pow2(i)) % 2
Xor4(a, b) == ((Bit(a, 0) + Bit(b, 0)) % 2) + 2 * ((Bit(a, 1) + Bit(b, 1)) % 2)
            + 4 * ((Bit(a, 2) + Bit(b, 2)) % 2) + 8 * ((Bit(a, 3) + Bit(b, 3)) % 2)
And4(a, b) == (Bit(a, 0) * Bit(b, 0)) + 2 * (Bit(a, 1) * Bit(b, 1))
            + 4 * (Bit(a, 2) * Bit(b, 2)) + 8 * (Bit(a, 3) * Bit(b, 3))
XorTab == [a \in 0..15 |-> [b \in 0..15 |-> Xor4(a, b)]]
AndTab == [a \in 0..15 |-> [b \in 0..15 |-> And4(a, b)]]
Xor8(a, b) == XorTab[a \div 16][b \div 16] * 16 + XorTab[a % 16][b % 16]
Xor16(a, b) == Xor8(a \div 256, b \div 256) * 256 + Xor8(a % 256, b % 256)
And8(a, b) == AndTab[a \div 16][b \div 16] * 16 + AndTab[a % 16][b % 16]
And16(a, b) == And8(a \div 256, b \div 256) * 256 + And8(a % 256, b % 256)
WXor(x, y) == <<Xor16(x[1], y[1]), Xor16(x[2], y[2])>>
WAnd(x, y) == <<And16(x[1], y[1]), And16(x[2], y[2])>>
WNot(x) == <<65535 - x[1], 65535 - x[2]>>
WOr(x, y) == WNot(WAnd(WNot(x), WNot(y)))
WAdd(x, y) == <<(x[1] + y[1] + ((x[2] + y[2]) \div 65536)) % 65536, (x[2] + y[2]) % 65536>>
RotlSmall(x, n) == <<((x[1] * Pow2(n)) % 65536) + (x[2] \div Pow2(16 - n)),
                     ((x[2] * Pow2(n)) % 65536) + (x[1] \div Pow2(16 - n))>>
Rotl(x, n) == IF n < 16 THEN RotlSmall(x, n) ELSE RotlSmall(<<x[2], x[1]>>, n - 16)

(***************************************************************************)
(* SHA-1 (crypto::sha1::Sha1: input, result) on a byte string, giving the  *)
(* 20 digest bytes.                                                        *)
(***************************************************************************)
Zeros(n) == [i \in 1..n |-> 0]
Sha1Pad(msg) ==
    msg \o <<128>> \o Zeros((55 - Len(msg)) % 64)
        \o <<0, 0, 0, 0, (Len(msg) * 8) \div 16777216, ((Len(msg) * 8) \div 65536) % 256,
             ((Len(msg) * 8) \div 256) % 256, (Len(msg) * 8) % 256>>
WordAt(m, i) == <<m[i] * 256 + m[i + 1], m[i + 2] * 256 + m[i + 3]>>
RECURSIVE Sha1Schedule(_)
Sha1Schedule(w) ==
    IF Len(w) = 80 THEN w
    ELSE Sha1Schedule(Append(w, Rotl(WXor(WXor(w[Len(w) - 2], w[Len(w) - 7]),
                                          WXor(w[Len(w) - 13], w[Len(w) - 15])), 1)))
Sha1F(t, b, c, d) ==
    IF t < 20 THEN WOr(WAnd(b, c), WAnd(WNot(b), d))
    ELSE IF t < 40 THEN WXor(WXor(b, c), d)
    ELSE IF t < 60 THEN WOr(WOr(WAnd(b, c), WAnd(b, d)), WAnd(c, d))
    ELSE WXor(WXor(b, c), d)
Sha1K(t) ==
    IF t < 20 THEN <<23170, 31129>>          \* 5A827999
    ELSE IF t < 40 THEN <<28377, 60321>>     \* 6ED9EBA1
    ELSE IF t < 60 THEN <<36635, 48348>>     \* 8F1BBCDC
    ELSE <<51810, 49622>>                    \* CA62C1D6
RECURSIVE Sha1Rounds(_, _, _)
Sha1Rounds(s, w, t) ==
    IF t = 80 \/ Len(s) # 5 THEN s
    ELSE Sha1Rounds(<<WAdd(WAdd(WAdd(WAdd(Rotl(s[1], 5), Sha1F(t, s[2], s[3], s[4])), s[5]),
                                Sha1K(t)), w[t + 1]),
                      s[1], Rotl(s[2], 30), s[3], s[4]>>, w, t + 1)
Sha1Compress(h, m, off) ==
    LET w == Sha1Schedule([i \in 1..16 |-> WordAt(m, off + 4 * (i - 1) + 1)])
        s == Sha1Rounds(h, w, 0)
    IN  [i \in 1..5 |-> WAdd(h[i], s[i])]
RECURSIVE Sha1Blocks(_, _, _)
Sha1Blocks(h, m, off) ==
    IF off >= Len(m) THEN h ELSE Sha1Blocks(Sha1Compress(h, m, off), m, off + 64)
\* 67452301 EFCDAB89 98BADCFE 10325476 C3D2E1F0
Sha1Init == <<<<26437, 8961>>, <<61389, 43913>>, <<39098, 56574>>, <<4146, 21622>>, <<50130, 57840>>>>
Sha1(msg) ==
    LET h == Sha1Blocks(Sha1Init, Sha1Pad(msg), 0)
    IN  [i \in 1..20 |-> LET wd == h[((i - 1) \div 4) + 1]
                             hf == wd[(((i - 1) % 4) \div 2) + 1]
                         IN  IF (i - 1) % 2 = 0 THEN hf \div 256 ELSE hf % 256]

(***************************************************************************)
(* base64::encode: the standard alphabet, with padding; the result is the  *)
(* ASCII bytes of the encoded string.                                      *)
(***************************************************************************)
Base64Char(v) ==
    IF v < 26 THEN 65 + v                    \* A..Z
    ELSE IF v < 52 THEN 97 + (v - 26)        \* a..z
    ELSE IF v < 62 THEN 48 + (v - 52)        \* 0..9
    ELSE IF v = 62 THEN 43 ELSE 47           \* + /
RECURSIVE encode(_)
encode(bytes) ==
    IF Len(bytes) = 0 THEN <<>>
    ELSE IF Len(bytes) = 1 THEN
        <<Base64Char(bytes[1] \div 4), Base64Char((bytes[1] % 4) * 16), 61, 61>>
    ELSE IF Len(bytes) = 2 THEN
        <<Base64Char(bytes[1] \div 4),
          Base64Char((bytes[1] % 4) * 16 + (bytes[2] \div 16)),
          Base64Char((bytes[2] % 16) * 4), 61>>
    ELSE
        <<Base64Char(bytes[1] \div 4),
          Base64Char((bytes[1] % 4) * 16 + (bytes[2] \div 16)),
          Base64Char((bytes[2] % 16) * 4 + (bytes[3] \div 64)),
          Base64Char(bytes[3] % 64)>> \o encode(SubSeq(bytes, 4, Len(bytes)))

(***************************************************************************)
(* The handshake (main.rs: upgrade, generate_accept_key).                  *)
(***************************************************************************)
Ok(v) == [ok |-> TRUE, val |-> v]
Err(e) == [ok |-> FALSE, err |-> e]

\* "258EAFA5-E914-47DA-95CA-C5AB0DC85B11"
WS_GUID ==
    <<50, 53, 56, 69, 65, 70, 65, 53, 45, 69, 57, 49, 52, 45, 52, 55, 68, 65, 45,
      57, 53, 67, 65, 45, 67, 53, 65, 66, 48, 68, 67, 56, 53, 66, 49, 49>>

\* A variant that puts the second slice first.
concat_swapped(a, b) == b \o a
concat(a, b) == a \o b

generate_accept_key(websocket_key) == encode(Sha1(concat(websocket_key, WS_GUID)))

\* HeaderValue::to_str succeeds when every byte is visible ASCII or a tab.
to_str_ok(bytes) == \A i \in 1..Len(bytes) : (bytes[i] >= 32 /\ bytes[i] < 127) \/ bytes[i] = 9

I32_MAX == 2147483647
IsDigit(b) == b >= 48 /\ b <= 57
\* The digit loop of str::parse::<i32>: checked_mul(10), then checked_add or
\* checked_sub of the digit.
RECURSIVE parse_digits(_, _, _)
parse_digits(digits, result, is_positive) ==
    IF Len(digits) = 0 THEN Ok(result)
    ELSE IF ~IsDigit(digits[1]) THEN Err("InvalidDigit")
    ELSE IF is_positive THEN
        IF result > I32_MAX \div 10 \/ result * 10 > I32_MAX - (digits[1] - 48)
        THEN Err("PosOverflow")
        ELSE parse_digits(Tail(digits), result * 10 + (digits[1] - 48), is_positive)
    ELSE
        IF result < -(I32_MAX \div 10) \/ result * 10 < (-I32_MAX - 1) + (digits[1] - 48)
        THEN Err("NegOverflow")
        ELSE parse_digits(Tail(digits), result * 10 - (digits[1] - 48), is_positive)
\* str::parse::<i32>: an optional sign ("+" is 43, "-" is 45), then digits.
parse_i32(src) ==
    IF Len(src) = 0 THEN Err("Empty")
    ELSE IF src[1] \in {43, 45} /\ Len(src) = 1 THEN Err("InvalidDigit")
    ELSE IF src[1] = 43 THEN parse_digits(Tail(src), 0, TRUE)
    ELSE IF src[1] = 45 THEN parse_digits(Tail(src), 0, FALSE)
    ELSE parse_digits(src, 0, TRUE)

\* The errors of main.rs: Error::Internal, and Error::UpgradeError over the
\* variants of InvalidUpgrade.
Internal == [error |-> "Internal", cause |-> "", detail |-> ""]
HeaderNotFound(name) == [error |-> "UpgradeError", cause |-> "HeaderNotFound", detail |-> name]
InvalidVersionString(e) == [error |-> "UpgradeError", cause |-> "InvalidVersionString", detail |-> e]
InvalidVersion == [error |-> "UpgradeError", cause |-> "InvalidVersion", detail |-> ""]

\* websocket_version.to_str().map_err(..).map(|res| res.parse::<i32>()..)??
\* A variant that folds a parse failure into InvalidVersion.
map_parse_err_flat(parsed) ==
    IF parsed.ok THEN Ok(parsed.val) ELSE Err(InvalidVersion)
map_parse_err(parsed) ==
    IF parsed.ok THEN Ok(parsed.val) ELSE Err(InvalidVersionString(parsed.err))
parse_version(websocket_version) ==
    IF ~to_str_ok(websocket_version) THEN Err(Internal)
    ELSE map_parse_err(parse_i32(websocket_version))

SWITCHING_PROTOCOLS == 101
BAD_REQUEST == 400

SwitchingResponse(accept_key) ==
    [status |-> SWITCHING_PROTOCOLS, accept |-> Some(accept_key),
     upgrade |-> Some("websocket"), connection |-> Some("Upgrade"), body |-> <<>>]
BadRequestResponse ==
    [status |-> BAD_REQUEST, accept |-> None, upgrade |-> None, connection |-> None,
     body |-> <<>>]

\* A variant that rejects only the versions below 13.
check_version_below(ver, websocket_key) ==
    IF ~ver.ok THEN ver
    ELSE IF ver.val < 13 THEN Err(InvalidVersion)
    ELSE Ok(SwitchingResponse(generate_accept_key(websocket_key)))

\* The async block of upgrade from `if ver != 13` on.
check_version(ver, websocket_key) ==
    IF ~ver.ok THEN ver
    ELSE IF ver.val # 13 THEN Err(InvalidVersion)
    ELSE Ok(SwitchingResponse(generate_accept_key(websocket_key)))

\* A variant that looks for Sec-WebSocket-Version first.
handler_fut_version_first(r) ==
    IF r.version = None THEN Err(HeaderNotFound("Sec-WebSocket-Version"))
    ELSE IF r.key = None THEN Err(HeaderNotFound("Sec-WebSocket-Key"))
    ELSE check_version(parse_version(r.version[1]), r.key[1])

\* The async block of upgrade: Ok(the 101 response) or the error.
handler_fut(r) ==
    IF r.key = None THEN Err(HeaderNotFound("Sec-WebSocket-Key"))
    ELSE IF r.version = None THEN Err(HeaderNotFound("Sec-WebSocket-Version"))
    ELSE check_version(parse_version(r.version[1]), r.key[1])

(***************************************************************************)
(* nom's parsers as websocket.rs uses them.  A parser result is            *)
(*   [kind |-> "Ok", rest, offset, val]   the remaining input, the bit     *)
(*                                        offset into its first byte, and  *)
(*                                        the value;                       *)
(*   [kind |-> "Err", err]                nom::Err::Error, Incomplete or   *)
(*                                        Failure;                         *)
(*   [kind |-> "Panic", msg]              an arithmetic overflow panic of  *)
(*                                        a build with overflow checks.    *)
(* A step that continues from an earlier result takes it as a parameter,   *)
(* the result being computed once.                                         *)
(***************************************************************************)
POk(r, o, v) == [kind |-> "Ok", rest |-> r, offset |-> o, val |-> v]
PErr(e) == [kind |-> "Err", err |-> e]
Panic(m) == [kind |-> "Panic", msg |-> m]
Min(a, b) == IF a < b THEN a ELSE b
\* The element of a set of one element.  The({F(v) : v \in {x}}) is
\* `let v = x; F(v)`: x is evaluated once.
The(S) == CHOOSE out \in S : TRUE

\* The byte loop of nom::bits::complete::take with a u8 accumulator: `<<` by 8
\* or more and a `+=` past 255 panic with overflow checks, and wrap without.
RECURSIVE take_loop(_, _, _, _, _, _, _)
take_loop(input, i, last, acc, offset, remaining, prof) ==
    IF i > last \/ remaining = 0 THEN [kind |-> "Ok", val |-> acc, offset |-> 0]
    ELSE LET val == IF offset = 0 THEN input[i]
                    ELSE ((input[i] * Pow2(offset)) % 256) \div Pow2(offset)
         IN  IF remaining < 8 - offset THEN
                 LET sum == acc + (val \div Pow2(8 - offset - remaining))
                 IN  IF sum > 255 /\ prof = "debug" THEN Panic("attempt to add with overflow")
                     ELSE [kind |-> "Ok", val |-> sum % 256, offset |-> remaining + offset]
             ELSE
                 LET shift == remaining - (8 - offset)
                     sum == acc + ((val * Pow2(shift % 8)) % 256)
                 IN  IF shift >= 8 /\ prof = "debug"
                     THEN Panic("attempt to shift left with overflow")
                     ELSE IF sum > 255 /\ prof = "debug"
                     THEN Panic("attempt to add with overflow")
                     ELSE take_loop(input, i + 1, last, sum % 256, 0,
                                    remaining - (8 - offset), prof)

\* The end of take: Ok(((input.slice(cnt..), end_offset), acc)).
take_result(r, input, cnt) ==
    IF r.kind = "Panic" THEN r
    ELSE POk(SubSeq(input, cnt + 1, Len(input)), r.offset, r.val)

\* nom::bits::complete::take(count) on the bit input (input, bit_offset).
take_bits(count, input, bit_offset, prof) ==
    IF count = 0 THEN POk(input, bit_offset, 0)
    ELSE IF Len(input) * 8 < count + bit_offset THEN PErr("Error")
    ELSE The({take_result(r, input, (count + bit_offset) \div 8) :
                  r \in {take_loop(input, 1,
                                   Min(((count + bit_offset) \div 8) + 1, Len(input)),
                                   0, bit_offset, count, prof)}})

\* nom::sequence::tuple over bit parsers: each starts where the last one ended.
RECURSIVE take_bits_tuple(_, _, _, _, _)
tuple_next(r, counts, vals, prof) ==
    IF r.kind # "Ok" THEN r
    ELSE take_bits_tuple(Tail(counts), r.rest, r.offset, Append(vals, r.val), prof)
take_bits_tuple(counts, input, bit_offset, vals, prof) ==
    IF Len(counts) = 0 THEN POk(input, bit_offset, vals)
    ELSE The({tuple_next(r, counts, vals, prof) :
                  r \in {take_bits(Head(counts), input, bit_offset, prof)}})

\* nom::bits::bits: back to byte input, a partly read byte being dropped.
bits(r) ==
    IF r.kind # "Ok" THEN r
    ELSE POk(SubSeq(r.rest, (r.offset \div 8) + (IF r.offset % 8 = 0 THEN 0 ELSE 1) + 1,
                    Len(r.rest)), 0, r.val)

\* nom::combinator::cond(b, f): Some of f's value when b, None and no input
\* consumed otherwise.
cond(b, r, input) ==
    IF ~b THEN POk(input, 0, None)
    ELSE IF r.kind # "Ok" THEN r
    ELSE POk(r.rest, r.offset, Some(r.val))

\* nom::number::complete::be_u32.
be_u32(input) ==
    IF Len(input) < 4 THEN PErr("Error")
    ELSE POk(SubSeq(input, 5, Len(input)), 0,
             <<input[1] * 256 + input[2], input[3] * 256 + input[4]>>)

(***************************************************************************)
(* websocket.rs: the errors and Frame.                                     *)
(***************************************************************************)
ParseError(m) == [error |-> "ParseError", cause |-> "", detail |-> m]
IoError == [error |-> "IoError", cause |-> "", detail |-> ""]
HyperError == [error |-> "HyperError", cause |-> "", detail |-> ""]

\* impl From<nom::Err<ParseError<I>>> for Error
FromNomErr(e) ==
    CASE e = "Error" -> ParseError("nom parser errors go here.")
      [] e = "Incomplete" -> ParseError("Not enough data.")
      [] e = "Failure" -> ParseError("Critical parser error.")

parse_masking_key(input) == be_u32(input)

\* A variant that reads rsv as 4 bits and opcode as 3.
parse_pre_payload_wide_rsv(input, prof) ==
    The({bits(r) : r \in {take_bits_tuple(<<1, 4, 3, 1, 7>>, input, 0, <<>>, prof)}})
parse_pre_payload(input, prof) ==
    The({bits(r) : r \in {take_bits_tuple(<<1, 3, 4, 1, 7>>, input, 0, <<>>, prof)}})

\* match payload_hint { 126 => 16, 127 => 64, _ => payload_hint }
payload_word_len(payload_hint) ==
    CASE payload_hint = 126 -> 16
      [] payload_hint = 127 -> 64
      [] OTHER -> payload_hint

\* cond(payload_word_len >= 16, take_bits(payload_word_len)) under bits, on rest.
parse_payload_len(word_len, input, prof) ==
    The({bits(r) : r \in {cond(word_len >= 16, take_bits(word_len, input, 0, prof), input)}})

\* The closure of map: the Frame, beside the bytes after the masking key.
from_bytes_frame(pre, word_len, payload_len, key) ==
    IF key.kind = "Err" THEN [kind |-> "Err", error |-> FromNomErr(key.err)]
    ELSE [kind |-> "Ok", rest |-> key.rest,
          frame |-> [fin |-> pre.val[1], rsv |-> pre.val[2],
                     mask |-> pre.val[4], opcode |-> pre.val[3],
                     length |-> IF payload_len.val = None THEN word_len
                                ELSE payload_len.val[1],
                     masking_key |-> key.val]]

\* tuple((bits(payload_len), parse_masking_key)) from the length on.
from_bytes_key(pre, word_len, payload_len) ==
    IF payload_len.kind = "Err" THEN [kind |-> "Err", error |-> FromNomErr(payload_len.err)]
    ELSE IF payload_len.kind = "Panic" THEN payload_len
    ELSE The({from_bytes_frame(pre, word_len, payload_len, key) :
                  key \in {parse_masking_key(payload_len.rest)}})

\* from_bytes from the parsed header on.
from_bytes_len(pre, prof) ==
    IF pre.kind = "Err" THEN [kind |-> "Err", error |-> FromNomErr(pre.err)]
    ELSE IF pre.kind = "Panic" THEN pre
    ELSE The({from_bytes_key(pre, payload_word_len(pre.val[5]), payload_len) :
                  payload_len \in {parse_payload_len(payload_word_len(pre.val[5]),
                                                     pre.rest, prof)}})

\* Frame::from_bytes: [kind |-> "Ok", rest, frame], [kind |-> "Err", error]
\* or a panic.
from_bytes(input, prof) ==
    The({from_bytes_len(pre, prof) : pre \in {parse_pre_payload(input, prof)}})

(***************************************************************************)
(* main.rs: decode and the body of handle_upgraded after the read.         *)
(***************************************************************************)
\* u32::to_le_bytes, the other byte order.
to_le_bytes(k) == <<k[2] % 256, k[2] \div 256, k[1] % 256, k[1] \div 256>>
\* u32::to_be_bytes
to_be_bytes(k) == <<k[1] \div 256, k[1] % 256, k[2] \div 256, k[2] % 256>>

\* A variant that adds the mask byte instead of XOR-ing it.
decode_add(target, source, mask, len) ==
    IF len > Len(source) \/ len > Len(target)
    THEN Panic("index out of bounds")
    ELSE [kind |-> "Ok",
          target |-> [i \in 1..Len(target) |->
                         IF i <= len THEN (source[i] + mask[((i - 1) % 4) + 1]) % 256
                         ELSE target[i]]]

\* decode: indexing target or source past its end panics.
decode(target, source, mask, len) ==
    IF len > Len(source) \/ len > Len(target)
    THEN Panic("index out of bounds")
    ELSE [kind |-> "Ok",
          target |-> [i \in 1..Len(target) |->
                         IF i <= len THEN Xor8(source[i], mask[((i - 1) % 4) + 1])
                         ELSE target[i]]]

\* handle_upgraded from decode's return on.
handle_decoded(parsed, decoded) ==
    IF decoded.kind = "Panic"
    THEN [outcome |-> decoded, frame |-> Some(parsed.frame),
          rest |-> Some(parsed.rest), message |-> None]
    ELSE [outcome |-> [kind |-> "Ok"], frame |-> Some(parsed.frame),
          rest |-> Some(parsed.rest), message |-> Some(decoded.target)]

\* handle_upgraded from from_bytes' return on.
handle_parsed(parsed) ==
    IF parsed.kind = "Err"
    THEN [outcome |-> [kind |-> "Err", error |-> parsed.error],
          frame |-> None, rest |-> None, message |-> None]
    ELSE IF parsed.kind = "Panic"
    THEN [outcome |-> parsed, frame |-> None, rest |-> None, message |-> None]
    ELSE The({handle_decoded(parsed, decoded) :
                  decoded \in {decode(Zeros(parsed.frame.length), parsed.rest,
                                      to_be_bytes(parsed.frame.masking_key),
                                      parsed.frame.length)}})

\* handle_upgraded from the bytes read on: how it ends, and the frame, the
\* remaining bytes and the message it got to.
handle_frame(frame_bytes, prof) ==
    The({handle_parsed(parsed) : parsed \in {from_bytes(frame_bytes, prof)}})

(***************************************************************************)
(* The inputs the environment may send.                                    *)
(***************************************************************************)
SeqsUpTo(S, n) == UNION {[1..k -> S] : k \in 0..n}
Option(S) == {None} \cup {Some(x) : x \in S}

\* "dGhlIHNhbXBsZSBub25jZQ=="
SampleKey ==
    <<100, 71, 104, 108, 73, 72, 78, 104, 98, 88, 66, 115, 90, 83, 66, 117, 98, 50,
      53, 106, 90, 81, 61, 61>>
\* "x3JJHMbDL1EzLkh9GBhXDw=="
OtherKey ==
    <<120, 51, 74, 74, 72, 77, 98, 68, 76, 49, 69, 122, 76, 107, 104, 57, 71, 66,
      104, 88, 68, 119, 61, 61>>
Keys == {SampleKey, OtherKey, <<97>>}

\* "0" "1" "2" "3" "+" "-" "a" "b" "c" and a byte outside ASCII
VersionBytes == {48, 49, 50, 51, 43, 45, 97, 98, 99, 128}
Versions == SeqsUpTo(VersionBytes, MaxVersionLen)
Version13 == <<49, 51>>

Requests(keys, versions) == [key : Option(keys), version : Option(versions)]

\* 81 85 37 fa 21 3d 7f 9f 4d 51 58: the masked text frame "Hello"
HelloFrame == <<129, 133, 55, 250, 33, 61, 127, 159, 77, 81, 88>>
Hello == <<72, 101, 108, 108, 111>>

FirstBytes == {129, 1, 130, 241}            \* 81, 01, 82, f1
Hints == {0, 5, 15, 16, 20, 125, 126, 127}
SecondBytes == {m * 128 + h : m \in {0, 1}, h \in Hints}
TailPatterns ==
    { <<55, 250, 33, 61, 127, 159, 77, 81, 88, 129, 133, 55, 250>>,
      <<0, 5, 55, 250, 33, 61, 127, 159, 77, 81, 88, 129, 133>>,
      <<1, 0, 55, 250, 33, 61, 127, 159, 77, 81, 88, 129, 133>>,
      <<0, 0, 0, 0, 0, 0, 0, 3, 55, 250, 33, 61, 127, 159, 77, 81, 88>>,
      <<255, 255, 255, 2, 55, 250, 33, 61, 127, 159, 77, 81, 88>> }
PatternTail(p, n) == [i \in 1..n |-> p[((i - 1) % Len(p)) + 1]]
\* Headers of every kind before a cut of a byte pattern.
HeaderFrames ==
    {<<>>} \cup {<<b>> : b \in FirstBytes}
    \cup {<<b0, b1>> \o PatternTail(p, n) :
              b0 \in FirstBytes, b1 \in SecondBytes, p \in TailPatterns, n \in 0..MaxTail}
\* Whole masked text frames: a header, a masking key and a payload.
KeyBytes == {55, 250}
PayloadBytes == {0, 127, 255}
MaskedFrames ==
    {<<129, 128 + Len(p)>> \o k \o p :
         k \in [1..4 -> KeyBytes], p \in SeqsUpTo(PayloadBytes, MaxPayload)}
Frames == HeaderFrames \cup MaskedFrames
\* Every pair of header bytes, before bytes enough for the longest length
\* extension from_bytes reads and a masking key.
Byte == 0..255
HeaderTail == PatternTail(<<0, 1, 55, 250, 33, 61, 127>>, HeaderTailLen)
AllHeaders == {<<b0, b1>> \o HeaderTail : b0 \in Byte, b1 \in Byte}

(***************************************************************************)
(* The server: one upgrade request per connection, and the task that a     *)
(* successful upgrade spawns.                                              *)
(***************************************************************************)
Init ==
    /\ profile \in {"debug", "release"}
    /\ req = [c \in Conn |-> None]
    /\ resp = [c \in Conn |-> None]
    /\ warned = [c \in Conn |-> None]
    /\ task = [c \in Conn |-> "none"]
    /\ buffer = [c \in Conn |-> None]
    /\ frame = [c \in Conn |-> None]
    /\ rest = [c \in Conn |-> None]
    /\ message = [c \in Conn |-> None]
    /\ outcome = [c \in Conn |-> None]

\* upgrade on a request of R: the handler answers 101 and spawns the
\* connection task, or logs the error and answers 400.
\* A variant that spawns the connection task before the request is validated.
respond_spawn_first(c, r, handled) ==
    /\ req' = [req EXCEPT ![c] = Some(r)]
    /\ resp' = [resp EXCEPT ![c] =
                   Some(IF handled.ok THEN handled.val ELSE BadRequestResponse)]
    /\ warned' = [warned EXCEPT ![c] = IF handled.ok THEN None ELSE Some(handled.err)]
    /\ task' = [task EXCEPT ![c] = "on_upgrade"]
\* A variant with one hasher for the server, never reset: the digest covers
\* the input of the handshakes accepted before as well.
hashed_before(c) ==
    IF \E d \in Conn : d # c /\ resp[d] # None /\ resp[d][1].status = SWITCHING_PROTOCOLS
    THEN concat(req[CHOOSE d \in Conn : d # c /\ resp[d] # None
                                           /\ resp[d][1].status = SWITCHING_PROTOCOLS][1].key[1],
                WS_GUID)
    ELSE <<>>
respond_shared_hasher(c, r, handled) ==
    /\ req' = [req EXCEPT ![c] = Some(r)]
    /\ resp' = [resp EXCEPT ![c] =
                   Some(IF handled.ok
                        THEN SwitchingResponse(
                                 encode(Sha1(concat(hashed_before(c), concat(r.key[1], WS_GUID)))))
                        ELSE BadRequestResponse)]
    /\ warned' = [warned EXCEPT ![c] = IF handled.ok THEN None ELSE Some(handled.err)]
    /\ task' = [task EXCEPT ![c] = IF handled.ok THEN "on_upgrade" ELSE "none"]
respond(c, r, handled) ==
    /\ req' = [req EXCEPT ![c] = Some(r)]
    /\ resp' = [resp EXCEPT ![c] =
                   Some(IF handled.ok THEN handled.val ELSE BadRequestResponse)]
    /\ warned' = [warned EXCEPT ![c] = IF handled.ok THEN None ELSE Some(handled.err)]
    /\ task' = [task EXCEPT ![c] = IF handled.ok THEN "on_upgrade" ELSE "none"]
upgrade(c, R) ==
    /\ req[c] = None
    /\ \E r \in R : \E handled \in {handler_fut(r)} : respond(c, r, handled)
    /\ UNCHANGED <<profile, buffer, frame, rest, message, outcome>>

\* hyper::upgrade::on(req).await gives the upgraded connection.
upgrade_on_ok(c) ==
    /\ task[c] = "on_upgrade"
    /\ task' = [task EXCEPT ![c] = "read_buf"]
    /\ UNCHANGED <<profile, req, resp, warned, buffer, frame, rest, message, outcome>>

\* hyper::upgrade::on(req).await fails: the task ends with the error logged.
upgrade_on_err(c) ==
    /\ task[c] = "on_upgrade"
    /\ task' = [task EXCEPT ![c] = "done"]
    /\ outcome' = [outcome EXCEPT ![c] = Some([kind |-> "Err", error |-> HyperError])]
    /\ UNCHANGED <<profile, req, resp, warned, buffer, frame, rest, message>>

\* conn.read_buf(&mut buffer).await returns the bytes the client sent, of W.
read_buf_ok(c, W) ==
    /\ task[c] = "read_buf"
    /\ \E bytes \in W : buffer' = [buffer EXCEPT ![c] = Some(bytes)]
    /\ task' = [task EXCEPT ![c] = "from_bytes"]
    /\ UNCHANGED <<profile, req, resp, warned, frame, rest, message, outcome>>

\* conn.read_buf(&mut buffer).await fails.
read_buf_err(c) ==
    /\ task[c] = "read_buf"
    /\ task' = [task EXCEPT ![c] = "done"]
    /\ outcome' = [outcome EXCEPT ![c] = Some([kind |-> "Err", error |-> IoError])]
    /\ UNCHANGED <<profile, req, resp, warned, buffer, frame, rest, message>>

\* The rest of handle_upgraded, which runs without suspending: from_bytes,
\* decode, println, and the end of the task.
finish(c, handled) ==
    /\ frame' = [frame EXCEPT ![c] = handled.frame]
    /\ rest' = [rest EXCEPT ![c] = handled.rest]
    /\ message' = [message EXCEPT ![c] = handled.message]
    /\ outcome' = [outcome EXCEPT ![c] = Some(handled.outcome)]
\* A variant that feeds the bytes left over back to from_bytes.
finish_loop(c, handled) ==
    /\ finish(c, handled)
    /\ IF handled.rest # None /\ handled.message # None
            /\ Len(handled.rest[1]) > Len(handled.message[1])
       THEN /\ buffer' = [buffer EXCEPT ![c] =
                             Some(SubSeq(handled.rest[1], Len(handled.message[1]) + 1,
                                         Len(handled.rest[1])))]
            /\ task' = task
       ELSE /\ buffer' = buffer
            /\ task' = [task EXCEPT ![c] = "done"]
handle_upgraded_loop(c) ==
    /\ task[c] = "from_bytes"
    /\ \E handled \in {handle_frame(buffer[c][1], profile)} : finish_loop(c, handled)
    /\ UNCHANGED <<profile, req, resp, warned>>
\* A variant in which a task that failed takes the other tasks down with it.
handle_upgraded_abort(c) ==
    /\ task[c] = "from_bytes"
    /\ \A d \in Conn : IF outcome[d] = None THEN TRUE ELSE outcome[d][1].kind = "Ok"
    /\ \E handled \in {handle_frame(buffer[c][1], profile)} : finish(c, handled)
    /\ task' = [task EXCEPT ![c] = "done"]
    /\ UNCHANGED <<profile, req, resp, warned, buffer>>
handle_upgraded(c) ==
    /\ task[c] = "from_bytes"
    /\ \E handled \in {handle_frame(buffer[c][1], profile)} : finish(c, handled)
    /\ task' = [task EXCEPT ![c] = "done"]
    /\ UNCHANGED <<profile, req, resp, warned, buffer>>

\* The steps of the connections C, with requests from R and frames from W.
Step(C, R, W) ==
    \E c \in C :
        \/ upgrade(c, R)
        \/ upgrade_on_ok(c)
        \/ upgrade_on_err(c)
        \/ read_buf_ok(c, W)
        \/ read_buf_err(c)
        \/ handle_upgraded(c)

\* Every connection, a few requests and frames.
SpecRequests == Requests({SampleKey}, {Version13, <<49, 50>>, <<>>})
SpecFrames == {HelloFrame, <<>>, SubSeq(HelloFrame, 1, 8), HelloFrame \o <<129>>}
Next == Step(Conn, SpecRequests, SpecFrames)
Spec == Init /\ [][Next]_vars

\* The runtime runs a task that can run: once read_buf has returned, the rest
\* of handle_upgraded has no await and runs to the task's end.
FairSpec == Spec /\ \A c \in Conn : WF_vars(handle_upgraded(c))

\* One connection, every request, a few frames.
HandshakeNext == Step({1}, Requests(Keys, Versions), {HelloFrame, <<>>})
HandshakeSpec == Init /\ [][HandshakeNext]_vars

\* One connection, one valid request, every frame.
CodecNext == Step({1}, Requests({SampleKey}, {Version13}), Frames)
CodecSpec == Init /\ [][CodecNext]_vars

\* One connection, one valid request, every pair of header bytes.
HeaderNext == Step({1}, Requests({SampleKey}, {Version13}), AllHeaders)
HeaderSpec == Init /\ [][HeaderNext]_vars

(***************************************************************************)
(* The handshake claims, checked under HandshakeSpec.                      *)
(***************************************************************************)
Answered(c) == resp[c] # None
KeyOf(c) == req[c][1].key
VersionOf(c) == req[c][1].version

\* A version string that str::parse::<i32> reads as 13: an optional "+",
\* any number of "0", then "13".
Denotes13(v) ==
    LET d == IF Len(v) > 0 /\ v[1] = 43 THEN Tail(v) ELSE v
    IN  /\ Len(d) >= 2
        /\ d[Len(d) - 1] = 49 /\ d[Len(d)] = 51
        /\ \A i \in 1..(Len(d) - 2) : d[i] = 48

ValidUpgrade(c) ==
    /\ KeyOf(c) # None
    /\ VersionOf(c) # None
    /\ Denotes13(VersionOf(c)[1])

NeverUpgraded(c) ==
    /\ task[c] = "none"
    /\ buffer[c] = None /\ frame[c] = None /\ rest[c] = None
    /\ message[c] = None /\ outcome[c] = None

\* C1: every answered upgrade request gets 101 with Sec-WebSocket-Accept,
\* Upgrade: websocket, Connection: Upgrade and an empty body exactly when both
\* headers are present and the version parses to 13; every other request gets
\* 400 with an empty body and no headers, and its connection has no task, no
\* bytes read and no frame decoded.
C1_StatusIffValidUpgrade ==
    \A c \in Conn :
        Answered(c) =>
            /\ ValidUpgrade(c) =>
                   /\ resp[c][1].status = 101
                   /\ resp[c][1].accept # None
                   /\ resp[c][1].upgrade = Some("websocket")
                   /\ resp[c][1].connection = Some("Upgrade")
                   /\ resp[c][1].body = <<>>
            /\ ~ValidUpgrade(c) =>
                   /\ resp[c][1].status = 400
                   /\ resp[c][1].accept = None
                   /\ resp[c][1].upgrade = None
                   /\ resp[c][1].connection = None
                   /\ resp[c][1].body = <<>>
                   /\ NeverUpgraded(c)

\* C1 witness: a request with version "+13" was answered 101 and its frame
\* decoded.
C1_Witness ==
    \E c \in Conn :
        /\ Answered(c) /\ resp[c][1].status = 101
        /\ VersionOf(c) = Some(<<43, 49, 51>>)
        /\ message[c] # None

Version12 == <<49, 50>>
VersionEmpty == <<>>
VersionAbc == <<97, 98, 99>>

\* C2 as claimed: with a key present, the versions "12", "" and "abc" all fail
\* with the one error InvalidVersion, and no accept token is produced.
C2_AllInvalidVersion ==
    \A c \in Conn :
        (Answered(c) /\ KeyOf(c) # None
            /\ VersionOf(c) \in {Some(Version12), Some(VersionEmpty), Some(VersionAbc)}) =>
                /\ warned[c] = Some(InvalidVersion)
                /\ resp[c][1].accept = None

\* C2 as amended: with a key present, "12" fails with InvalidVersion while ""
\* and "abc" fail with InvalidVersionString (the integer parse error); in all
\* three cases the answer is 400 and no accept token is produced.
C2_InvalidVersionOrString ==
    \A c \in Conn :
        (Answered(c) /\ KeyOf(c) # None) =>
            /\ VersionOf(c) = Some(Version12) => warned[c] = Some(InvalidVersion)
            /\ VersionOf(c) = Some(VersionEmpty) =>
                   warned[c] = Some(InvalidVersionString("Empty"))
            /\ VersionOf(c) = Some(VersionAbc) =>
                   warned[c] = Some(InvalidVersionString("InvalidDigit"))
            /\ VersionOf(c) \in {Some(Version12), Some(VersionEmpty), Some(VersionAbc)} =>
                   /\ resp[c][1].status = 400
                   /\ resp[c][1].accept = None

\* C2 witness: a request with a key and version "abc" was answered.
C2_Witness ==
    \E c \in Conn : Answered(c) /\ KeyOf(c) # None /\ VersionOf(c) = Some(VersionAbc)

\* "s3pPLMBiTxaQ9kYGzzhZRbK+xOo="
SampleAccept ==
    <<115, 51, 112, 80, 76, 77, 66, 105, 84, 120, 97, 81, 57, 107, 89, 71, 122, 122,
      104, 90, 82, 98, 75, 43, 120, 79, 111, 61>>
\* "HSmrc0sMlYUkAGmm5OPpG2HaGWk="
OtherAccept ==
    <<72, 83, 109, 114, 99, 48, 115, 77, 108, 89, 85, 107, 65, 71, 109, 109, 53, 79,
      80, 112, 71, 50, 72, 97, 71, 87, 107, 61>>

\* C9: a handshake with key k that is answered 101 carries the accept token
\* base64(sha1(k ++ GUID)), the key bytes first; for the key
\* "dGhlIHNhbXBsZSBub25jZQ==" it is "s3pPLMBiTxaQ9kYGzzhZRbK+xOo=" (and for
\* "x3JJHMbDL1EzLkh9GBhXDw==" it is "HSmrc0sMlYUkAGmm5OPpG2HaGWk=").
C9_AcceptToken ==
    \A c \in Conn :
        (Answered(c) /\ resp[c][1].status = 101) =>
            /\ resp[c][1].accept = Some(encode(Sha1(KeyOf(c)[1] \o WS_GUID)))
            /\ KeyOf(c) = Some(SampleKey) => resp[c][1].accept = Some(SampleAccept)
            /\ KeyOf(c) = Some(OtherKey) => resp[c][1].accept = Some(OtherAccept)

\* C9 witness: the sample key with version "13" was answered 101.
C9_Witness ==
    \E c \in Conn :
        /\ Answered(c) /\ resp[c][1].status = 101
        /\ KeyOf(c) = Some(SampleKey) /\ VersionOf(c) = Some(Version13)

\* C10: a request without Sec-WebSocket-Key fails with HeaderNotFound naming
\* that header whatever its version header is (absent, invalid or valid), and
\* a request with the key but without Sec-WebSocket-Version fails with
\* HeaderNotFound naming the version header.
C10_HeaderNotFound ==
    \A c \in Conn :
        Answered(c) =>
            /\ KeyOf(c) = None => warned[c] = Some(HeaderNotFound("Sec-WebSocket-Key"))
            /\ (KeyOf(c) # None /\ VersionOf(c) = None) =>
                   warned[c] = Some(HeaderNotFound("Sec-WebSocket-Version"))

\* C10 witness: a request with no key and the invalid version "abc" was
\* answered.
C10_Witness ==
    \E c \in Conn : Answered(c) /\ KeyOf(c) = None /\ VersionOf(c) = Some(VersionAbc)

(***************************************************************************)
(* The frame decoder claims, checked under CodecSpec.                      *)
(***************************************************************************)
Handled(c) == task[c] = "done" /\ buffer[c] # None
Bytes(c) == buffer[c][1]
HintOf(c) == Bytes(c)[2] % 128
\* The k-byte big-endian representation of n, for n below 2^31.
BigEndian(n, k) == [i \in 1..k |-> IF k - i > 3 THEN 0 ELSE (n \div (256 ^ (k - i))) % 256]
Incomplete == [kind |-> "Err", error |-> ParseError("Not enough data.")]
HardParseError == [kind |-> "Err", error |-> ParseError("nom parser errors go here.")]

\* C3 as claimed: a frame with length_hint in 0..125 and at least a header and
\* a masking key decodes to a Frame whose length is length_hint and whose
\* masking key is the 4 bytes right after the 2-byte header.
C3_InlineLength ==
    \A c \in Conn :
        (Handled(c) /\ Len(Bytes(c)) >= 6 /\ HintOf(c) <= 125) =>
            /\ frame[c] # None
            /\ frame[c][1].length = HintOf(c)
            /\ to_be_bytes(frame[c][1].masking_key) = SubSeq(Bytes(c), 3, 6)

\* C4 as claimed: with length_hint 126 the Frame's length is the next 2 bytes
\* as a big-endian unsigned integer, and with length_hint 127 the next 8
\* bytes.
C4_ExtendedLength ==
    \A c \in Conn :
        /\ (Handled(c) /\ Len(Bytes(c)) >= 8 /\ HintOf(c) = 126) =>
               /\ frame[c] # None
               /\ BigEndian(frame[c][1].length, 2) = SubSeq(Bytes(c), 3, 4)
        /\ (Handled(c) /\ Len(Bytes(c)) >= 14 /\ HintOf(c) = 127) =>
               /\ frame[c] # None
               /\ BigEndian(frame[c][1].length, 8) = SubSeq(Bytes(c), 3, 10)

\* C5 as claimed: when the decoded Frame's length exceeds the payload bytes
\* present, the task ends with the Incomplete error: no message, no panic.
C5_ShortPayloadIncomplete ==
    \A c \in Conn :
        (Handled(c) /\ frame[c] # None /\ frame[c][1].length > Len(rest[c][1])) =>
            /\ outcome[c] = Some(Incomplete)
            /\ message[c] = None

\* C6 as claimed: a buffer of 0 or 1 bytes ends with the Incomplete error,
\* which differs from the hard parse error.
C6_ShortHeaderIncomplete ==
    \A c \in Conn :
        (Handled(c) /\ Len(Bytes(c)) < 2) =>
            /\ outcome[c] = Some(Incomplete)
            /\ outcome[c] # Some(HardParseError)

\* C7: the bytes 81 85 37 fa 21 3d 7f 9f 4d 51 58 decode to fin=1, rsv=0,
\* opcode=1, mask=1, length=5, masking key 37fa213d, and the message printed
\* is "Hello" (48 65 6c 6c 6f), in a debug and in a release build.
C7_HelloFrame ==
    \A c \in Conn :
        (Handled(c) /\ Bytes(c) = HelloFrame) =>
            /\ frame[c] = Some([fin |-> 1, rsv |-> 0, mask |-> 1, opcode |-> 1, length |-> 5,
                                masking_key |-> <<14330, 8509>>])      \* 37fa 213d
            /\ message[c] = Some(Hello)
            /\ outcome[c] = Some([kind |-> "Ok"])

\* C7 witness: the Hello frame was read and handled by a debug build.
C7_Witness ==
    \E c \in Conn : Handled(c) /\ Bytes(c) = HelloFrame /\ profile = "debug"

\* The 4 bytes of the buffer right before the bytes from_bytes returned.
WireKey(c) ==
    SubSeq(Bytes(c), Len(Bytes(c)) - Len(rest[c][1]) - 3, Len(Bytes(c)) - Len(rest[c][1]))
Payload(c) == SubSeq(rest[c][1], 1, frame[c][1].length)

\* C8: every message printed is the masked payload XOR-ed byte i with byte
\* i mod 4 of the masking key as it stands on the wire (byte 0 the most
\* significant byte of the u32), and the same transform applied to the
\* message with the same key gives the masked payload back.
C8_UnmaskInvolution ==
    \A c \in Conn :
        message[c] # None =>
            /\ Len(message[c][1]) = frame[c][1].length
            /\ \A i \in 1..Len(message[c][1]) :
                   message[c][1][i] = Xor8(Payload(c)[i], WireKey(c)[((i - 1) % 4) + 1])
            /\ decode(Zeros(Len(message[c][1])), message[c][1],
                      to_be_bytes(frame[c][1].masking_key), Len(message[c][1]))
                   = [kind |-> "Ok", target |-> Payload(c)]

\* C8 witness: a 5-byte message was unmasked with the key 37 fa 37 fa from the
\* payload ff 00 7f ff 00.
C8_Witness ==
    \E c \in Conn :
        /\ message[c] # None
        /\ Bytes(c) = <<129, 133, 55, 250, 55, 250, 255, 0, 127, 255, 0>>
        /\ message[c][1] = <<200, 250, 72, 5, 55>>

\* The bytes of the buffer that from_bytes consumed: all but the bytes it
\* returned.
Consumed(c) == SubSeq(Bytes(c), 1, Len(Bytes(c)) - Len(rest[c][1]))
MaskBit(c) == Bytes(c)[2] \div 128

\* C11 as claimed: after a successful decode the message has the Frame's
\* length, and the consumed header, the payload and the bytes from_bytes
\* returned as remaining make up the input: the remaining bytes are the input
\* after the payload.
C11_ExactSplit ==
    \A c \in Conn :
        (Handled(c) /\ message[c] # None) =>
            /\ Len(message[c][1]) = frame[c][1].length
            /\ Consumed(c) \o Payload(c) \o rest[c][1] = Bytes(c)
            /\ rest[c][1] = SubSeq(Bytes(c), Len(Consumed(c)) + frame[c][1].length + 1,
                                   Len(Bytes(c)))

\* C12 as claimed: for a frame with mask bit 0 and an inline length that has
\* all its payload bytes, no key bytes are consumed: the bytes from_bytes
\* returns start right after the 2-byte header, and the message is the payload
\* unchanged.
C12_KeyOnlyWhenMasked ==
    \A c \in Conn :
        (Handled(c) /\ Len(Bytes(c)) >= 2 /\ MaskBit(c) = 0 /\ HintOf(c) <= 15
            /\ Len(Bytes(c)) >= 2 + HintOf(c)) =>
                /\ rest[c] = Some(SubSeq(Bytes(c), 3, Len(Bytes(c))))
                /\ message[c] = Some(SubSeq(Bytes(c), 3, 2 + HintOf(c)))

\* C17 as claimed: every Frame that from_bytes returns has rsv = 0.
C17_RsvZero ==
    \A c \in Conn : frame[c] # None => frame[c][1].rsv = 0

(***************************************************************************)
(* The header claim, checked under HeaderSpec.                             *)
(***************************************************************************)
\* C15: for every pair of header bytes (b0, b1) at the start of the buffer,
\* parse_pre_payload succeeds, in a debug and in a release build, with
\* fin = b0's top bit, rsv = its next 3 bits, opcode = its low 4 bits,
\* mask = b1's top bit and length_hint = its low 7 bits, leaving the bytes
\* after the pair; and a Frame that from_bytes returns carries that fin, rsv,
\* opcode and mask.
C15_HeaderBits ==
    \A c \in Conn :
        (Handled(c) /\ Len(Bytes(c)) >= 2) =>
            /\ parse_pre_payload(Bytes(c), profile) =
                   POk(SubSeq(Bytes(c), 3, Len(Bytes(c))), 0,
                       <<Bytes(c)[1] \div 128, (Bytes(c)[1] \div 16) % 8, Bytes(c)[1] % 16,
                         Bytes(c)[2] \div 128, Bytes(c)[2] % 128>>)
            /\ frame[c] # None =>
                   /\ frame[c][1].fin = Bytes(c)[1] \div 128
                   /\ frame[c][1].rsv = (Bytes(c)[1] \div 16) % 8
                   /\ frame[c][1].opcode = Bytes(c)[1] % 16
                   /\ frame[c][1].mask = Bytes(c)[2] \div 128

\* C15 witness: the header bytes 5a a5 (fin 0, rsv 5, opcode 10, mask 1,
\* length_hint 37) were handled and a Frame returned.
C15_Witness ==
    \E c \in Conn :
        /\ Handled(c) /\ Bytes(c)[1] = 90 /\ Bytes(c)[2] = 165
        /\ frame[c] # None /\ frame[c][1].rsv = 5 /\ frame[c][1].opcode = 10

(***************************************************************************)
(* The claims about the connections together, checked under Spec and       *)
(* FairSpec.                                                               *)
(***************************************************************************)
Failed(c) == outcome[c] # None /\ outcome[c][1].kind # "Ok"
\* What the model holds of connection c.
ConnState(c) ==
    <<req[c], resp[c], warned[c], task[c], buffer[c], frame[c], rest[c], message[c],
      outcome[c]>>
ConnStateNext(c) ==
    <<req'[c], resp'[c], warned'[c], task'[c], buffer'[c], frame'[c], rest'[c],
      message'[c], outcome'[c]>>

\* C13: the step in which a connection's task fails (a parse error, a panic
\* on a short buffer, a read error) changes nothing of the other connections;
\* while a connection has failed, every other connection can still be
\* answered, can still read and can still decode; and a task of another
\* connection that has read its bytes does reach its end with its own
\* outcome.
C13_FailureIsolated ==
    /\ [][\A c \in Conn :
              (~Failed(c) /\ Failed(c)') =>
                  \A d \in Conn \ {c} : ConnStateNext(d) = ConnState(d)]_vars
    /\ [](\A c \in Conn : \A d \in Conn \ {c} :
              Failed(c) =>
                  /\ req[d] = None => ENABLED upgrade(d, SpecRequests)
                  /\ task[d] = "read_buf" => ENABLED read_buf_ok(d, SpecFrames)
                  /\ task[d] = "from_bytes" => ENABLED handle_upgraded(d))
    /\ \A c \in Conn : \A d \in Conn \ {c} :
           (Failed(c) /\ task[d] = "from_bytes") ~> (task[d] = "done" /\ outcome[d] # None)

\* C13 witness: one connection's task panicked on a short buffer, and
\* another, answered after it, decoded "Hello".
C13_Witness ==
    \E c \in Conn : \E d \in Conn \ {c} :
        /\ outcome[c] # None /\ outcome[c][1].kind = "Panic"
        /\ buffer[c] = Some(SubSeq(HelloFrame, 1, 8))
        /\ task[d] = "done" /\ message[d] = Some(Hello)

\* C14: whatever a connection's task does (waiting for the upgraded
\* connection, reading, decoding, ending) it does in a state where the
\* connection's request has already been answered 101 with an accept token,
\* the request being a valid upgrade; and a step of the task leaves the
\* response as it is.
C14_HandshakeBeforeFrames ==
    [][\A c \in Conn :
           (task'[c] \notin {task[c], "on_upgrade"} \/ buffer'[c] # buffer[c]
                \/ frame'[c] # frame[c] \/ outcome'[c] # outcome[c]) =>
               /\ resp[c] # None
               /\ resp[c][1].status = 101
               /\ resp[c][1].accept # None
               /\ ValidUpgrade(c)
               /\ resp'[c] = resp[c]]_vars

\* C14 witness: a connection answered 101 has read its bytes, beside a
\* connection answered 400 that has no task.
C14_Witness ==
    \E c \in Conn : \E d \in Conn \ {c} :
        /\ resp[c] # None /\ resp[c][1].status = 101 /\ buffer[c] # None
        /\ resp[d] # None /\ resp[d][1].status = 400 /\ NeverUpgraded(d)

\* C16: the bytes read are never replaced and the Frame decoded is never
\* replaced; a task that has ended has an outcome and changes nothing any
\* more, whatever bytes from_bytes left; and once read_buf has returned its
\* bytes the task reaches its end.
C16_OneReadOneDecode ==
    /\ [][\A c \in Conn :
              /\ buffer[c] # None => buffer'[c] = buffer[c]
              /\ frame[c] # None => frame'[c] = frame[c]
              /\ outcome[c] # None => outcome'[c] = outcome[c]
              /\ task'[c] = "done" => outcome'[c] # None
              /\ task[c] = "done" => ConnStateNext(c) = ConnState(c)]_vars
    /\ \A c \in Conn : (task[c] = "from_bytes") ~> (task[c] = "done")

\* C16 witness: a task has ended after the Hello frame followed by one byte
\* of a next frame, that byte left beside the payload.
C16_Witness ==
    \E c \in Conn :
        /\ task[c] = "done" /\ buffer[c] = Some(HelloFrame \o <<129>>)
        /\ message[c] = Some(Hello)
        /\ rest[c] = Some(<<127, 159, 77, 81, 88, 129>>)

\* C18: two connections whose requests carry the same Sec-WebSocket-Key and
\* Sec-WebSocket-Version (each present or absent alike) have the same status
\* and the same accept token, in whatever order they were answered and
\* whatever the tasks of either have done.
C18_SameHeadersSameAnswer ==
    \A c \in Conn : \A d \in Conn :
        (Answered(c) /\ Answered(d) /\ KeyOf(c) = KeyOf(d) /\ VersionOf(c) = VersionOf(d)) =>
            /\ resp[c][1].status = resp[d][1].status
            /\ resp[c][1].accept = resp[d][1].accept

\* C18 witness: two connections were answered 101 for the sample key, one of
\* them after the other's task had ended in a panic.
C18_Witness ==
    \E c \in Conn : \E d \in Conn \ {c} :
        /\ Answered(c) /\ Answered(d) /\ req[c] = req[d]
        /\ resp[c][1].status = 101 /\ resp[d][1].accept = Some(SampleAccept)
        /\ outcome[c] # None /\ outcome[c][1].kind = "Panic"
        /\ task[d] = "on_upgrade"

=============================================================================
